---- MODULE Spec2Model ----
(***************************************************************************)
(* A model of src/experiment/data_properties.py: the six analysis          *)
(* functions (auto_correlation, trend, seasonality, uncon_het, cond_het,   *)
(* stochasticity) as one sequential state machine, and their helpers       *)
(* (high_auto_cor, merge_rmse, find_majority, anova) as operators.         *)
(*                                                                         *)
(* A pandas DataFrame is a record [columns, rows]: the column names in     *)
(* order and the rows in order, each row a function from column name to    *)
(* cell value.  Strings that the program takes apart (str.replace) or      *)
(* compares across columns (Counter over a whole row) are sequences of     *)
(* characters; the other labels are atomic strings.                        *)
(***************************************************************************)
EXTENDS Integers, Sequences, FiniteSets, TLC

VARIABLES
    fn,        \* the analysis function that was called
    pc,        \* the statement the function is at (or raised at)
    err,       \* the exception that ended the run, "none" while it runs
    files,     \* the CSV files under config.statistics_dir read by fn
    provider,  \* what read_rmse_csv returns for each of config.timeframes
    ljung,     \* auto_correlation's local ljung
    breusch,   \* auto_correlation's local breusch
    df,        \* the working table of the function (df / overlap)
    labeled,   \* the table merge_rmse was called with
    rmse_df,   \* merge_rmse's concatenated error table
    i,         \* position of the model loop in config.all_models
    call,      \* the latest call of a statistical routine and how it ended
    results,   \* the results dictionaries, in insertion order
    stdout     \* what has been printed, in order

vars == <<fn, pc, err, files, provider, ljung, breusch, df, labeled, rmse_df,
          i, call, results, stdout>>

-----------------------------------------------------------------------------
(* Bounds of the model.                                                    *)

\* Spec: rows of a diagnostics CSV
MaxRows == 3
\* SpecMerge: rows of the labeled CSV
MaxLabRows == 2
\* SpecMerge: rows read_rmse_csv returns per time frame
MaxErrRows == 2
\* SpecTrend: rows of trend_results_log_returns.csv
MaxVoteRows == 1
\* SpecAutoCor: how far a count of "Autocorrelated" rows goes above the cutoff
MaxExcess == 1

\* the cutoff of high_auto_cor
Threshold == 49

-----------------------------------------------------------------------------
(* Cell values.                                                            *)

BTC == <<"B", "T", "C">>
ETH == <<"E", "T", "H">>
D1 == <<"1", "d">>
H4 == <<"4", "h">>

Increasing == <<"i", "n", "c", "r", "e", "a", "s", "i", "n", "g">>
Decreasing == <<"d", "e", "c", "r", "e", "a", "s", "i", "n", "g">>
Trend == <<"t", "r", "e", "n", "d">>
NoTrend == <<"n", "o", " ">> \o Trend
NonIncreasing == <<"n", "o", "n", "-">> \o Increasing

Autocorrelated == "Autocorrelated"
NotAutocorrelated == "Not Autocorrelated"
\* the missing value an outer merge fills in; equal to no label
NaN == "nan"

\* config.all_models, config.timeframes
Models == <<"ARIMA", "RandomForest">>
TimeFrames == <<D1, H4>>

\* every (Coin, Time Frame) pair, in the lexicographic order pandas sorts keys in
AllPairs == <<<<BTC, D1>>, <<BTC, H4>>, <<ETH, D1>>, <<ETH, H4>>>>

\* the test columns of trend_results_log_returns.csv: three, or four
TrendTests == <<"test1", "test2", "test3">>
FourTrendTests == TrendTests \o <<"test4">>

-----------------------------------------------------------------------------
(* Sequences and DataFrames.                                               *)

Range(s) == {s[k] : k \in DOMAIN s}

IndexOf(s, v) == CHOOSE k \in DOMAIN s : s[k] = v

Occurrences(s, v) == Cardinality({k \in DOMAIN s : s[k] = v})

RECURSIVE Flatten(_)
Flatten(ss) == IF ss = <<>> THEN <<>> ELSE Head(ss) \o Flatten(Tail(ss))

\* Series.unique(): the distinct values in order of first appearance
RECURSIVE Unique(_)
Unique(s) ==
    IF s = <<>> THEN <<>>
    ELSE LET u == Unique(SubSeq(s, 1, Len(s) - 1))
             v == s[Len(s)]
         IN  IF v \in Range(u) THEN u ELSE Append(u, v)

DataFrame(columns, rows) == [columns |-> columns, rows |-> rows]

None == [columns |-> <<>>, rows |-> <<>>, none |-> TRUE]

KeyCols(p) == ("Coin" :> p[1]) @@ ("Time Frame" :> p[2])

Key(row) == <<row["Coin"], row["Time Frame"]>>

\* df[c]
Column(t, c) == [k \in 1..Len(t.rows) |-> t.rows[k][c]]

\* the cells of a row in column order: what iterating a row Series yields
RowValues(t, k) == [c \in 1..Len(t.columns) |-> t.rows[k][t.columns[c]]]

-----------------------------------------------------------------------------
(* high_auto_cor (lines 14-33).  The CSV of a test family holds one row    *)
(* per repetition of the test; since only the number of rows per           *)
(* (Coin, Time Frame, Result) is read, the file is kept as that number:    *)
(* file.count[<<coin, time frame, result>>].                               *)

\* df.groupby(["Coin", "Time Frame", "Result"]).size(): the groups that occur
Grouped(file) == {g \in DOMAIN file.count : file.count[g] > 0}

\* the columns of the pivot table: the Result values that occur in the file
PivotColumns(file) == {g[3] : g \in Grouped(file)}

\* the index of the pivot table: the pairs that occur, sorted
PivotIndex(file) ==
    SelectSeq(AllPairs, LAMBDA p : \E g \in Grouped(file) : <<g[1], g[2]>> = p)

\* a cell of the pivot table, fill_value = 0
PivotCell(file, p, result) ==
    IF <<p[1], p[2], result>> \in Grouped(file)
    THEN file.count[<<p[1], p[2], result>>]
    ELSE 0

\* np.where(pivot_df["Autocorrelated"] > 49, ...)
Predominantly(n) == IF n > Threshold THEN Autocorrelated ELSE NotAutocorrelated

high_auto_cor(file) ==
    IF Autocorrelated \notin PivotColumns(file)
    THEN [err |-> "KeyError", df |-> None]
    ELSE [err |-> "none",
          df  |-> DataFrame(<<"Coin", "Time Frame", "Predominantly">>,
                    [k \in 1..Len(PivotIndex(file)) |->
                        KeyCols(PivotIndex(file)[k]) @@
                        ("Predominantly" :>
                            Predominantly(PivotCell(file, PivotIndex(file)[k],
                                                    Autocorrelated)))])]

-----------------------------------------------------------------------------
(* auto_correlation's merge of the two families (lines 66-81).             *)

Keys(t) == {Key(t.rows[k]) : k \in 1..Len(t.rows)}

\* the mutant of MergedKeys: how="inner"
MergedKeysInner(l, b) == SelectSeq(AllPairs, LAMBDA p : p \in Keys(l) \cap Keys(b))

\* how="outer": the keys of either table, sorted
MergedKeys(l, b) == SelectSeq(AllPairs, LAMBDA p : p \in Keys(l) \cup Keys(b))

\* the cell of column c in the row of key p, NaN when the table has no such row
Lookup(t, p, c) ==
    IF p \in Keys(t)
    THEN t.rows[CHOOSE k \in 1..Len(t.rows) : Key(t.rows[k]) = p][c]
    ELSE NaN

\* pd.merge(ljung, breusch, on=["Coin", "Time Frame"], suffixes=...)
MergeFamilies(l, b) ==
    DataFrame(<<"Coin", "Time Frame", "Predominantly_ljung", "Predominantly_breusch">>,
        [k \in 1..Len(MergedKeys(l, b)) |->
            KeyCols(MergedKeys(l, b)[k]) @@
            ("Predominantly_ljung" :> Lookup(l, MergedKeys(l, b)[k], "Predominantly")) @@
            ("Predominantly_breusch" :> Lookup(b, MergedKeys(l, b)[k], "Predominantly"))])

\* the mutant of OverlapResult: | in place of &
OverlapResultEither(row) ==
    IF \/ row["Predominantly_ljung"] = Autocorrelated
       \/ row["Predominantly_breusch"] = Autocorrelated
    THEN Autocorrelated
    ELSE NotAutocorrelated

\* np.where((ljung == "Autocorrelated") & (breusch == "Autocorrelated"), ...)
OverlapResult(row) ==
    IF /\ row["Predominantly_ljung"] = Autocorrelated
       /\ row["Predominantly_breusch"] = Autocorrelated
    THEN Autocorrelated
    ELSE NotAutocorrelated

\* overlap, lines 67-81
Overlap(l, b) ==
    DataFrame(<<"Coin", "Time Frame", "Result">>,
        [k \in 1..Len(MergeFamilies(l, b).rows) |->
            KeyCols(Key(MergeFamilies(l, b).rows[k])) @@
            ("Result" :> OverlapResult(MergeFamilies(l, b).rows[k]))])

-----------------------------------------------------------------------------
(* merge_rmse (lines 36-58).                                               *)

\* rmse_df of one time frame with its "Time Frame" and "Coin" columns added
RmseFrame(prov, t) ==
    [j \in 1..Len(prov[t].rows) |->
        prov[t].rows[j] @@ ("Time Frame" :> TimeFrames[t]) @@ ("Coin" :> prov[t].index[j])]

\* pd.concat(rmse_dfs, axis=0, ignore_index=True)
Concat(prov) ==
    DataFrame(Models \o <<"Time Frame", "Coin">>,
              Flatten([t \in 1..Len(TimeFrames) |-> RmseFrame(prov, t)]))

Matches(l, right) == SelectSeq(right, LAMBDA r : Key(r) = Key(l))

\* the mutant of JoinRows: how="left", a row without a match is kept
RECURSIVE JoinRowsLeft(_, _)
JoinRowsLeft(left, right) ==
    IF left = <<>> THEN <<>>
    ELSE LET l == Head(left)
             m == Matches(l, right)
         IN  (IF m = <<>>
              THEN <<l @@ [c \in Range(Models) |-> NaN]>>
              ELSE [k \in 1..Len(m) |-> l @@ m[k]])
             \o JoinRowsLeft(Tail(left), right)

\* how="inner": one row per matching (left row, right row), in left order
RECURSIVE JoinRows(_, _)
JoinRows(left, right) ==
    IF left = <<>> THEN <<>>
    ELSE LET l == Head(left)
             m == Matches(l, right)
         IN  [k \in 1..Len(m) |-> l @@ m[k]] \o JoinRows(Tail(left), right)

\* pd.merge(df, rmse_df, how="inner", on=["Coin", "Time Frame"])
merge_rmse(t, rmse) == DataFrame(t.columns \o Models, JoinRows(t.rows, rmse.rows))

-----------------------------------------------------------------------------
(* find_majority (lines 99-104) and the folding of trend (lines 120-122).  *)

\* Counter(row): the distinct values in order of first appearance, with counts
Counter(values) ==
    [k \in 1..Len(Unique(values)) |->
        <<Unique(values)[k], Occurrences(values, Unique(values)[k])>>]

\* max(items, key=count): of several items with the highest count, the first
RECURSIVE FirstMax(_, _)
FirstMax(items, best) ==
    IF items = <<>> THEN best
    ELSE FirstMax(Tail(items), IF Head(items)[2] > best[2] THEN Head(items) ELSE best)

\* of several items with the highest count, the last
RECURSIVE LastMax(_, _)
LastMax(items, best) ==
    IF items = <<>> THEN best
    ELSE LastMax(Tail(items), IF Head(items)[2] >= best[2] THEN Head(items) ELSE best)

\* the mutant of most_common_1
most_common_last(counter) == LastMax(Tail(counter), Head(counter))

\* counter.most_common(1)[0]
most_common_1(counter) == FirstMax(Tail(counter), Head(counter))

find_majority(row) == most_common_1(Counter(row))[1]

\* Series.str.replace(pat, repl): every occurrence of pat, left to right
RECURSIVE str_replace(_, _, _)
str_replace(s, pat, repl) ==
    IF Len(s) < Len(pat) THEN s
    ELSE IF SubSeq(s, 1, Len(pat)) = pat
         THEN repl \o str_replace(SubSeq(s, Len(pat) + 1, Len(s)), pat, repl)
         ELSE <<Head(s)>> \o str_replace(Tail(s), pat, repl)

\* lines 121-122 on one label
Fold(label) == str_replace(str_replace(label, Increasing, Trend), Decreasing, Trend)

-----------------------------------------------------------------------------
(* The group comparison (lines 130-132 and its copies).                    *)

\* df[df[column] == result][model]: the errors of the rows of one label, with
\* the index of the row each comes from
Series(t, column, result, model) ==
    LET indexed == [k \in 1..Len(t.rows) |->
                        [index |-> k, label |-> t.rows[k][column],
                         value |-> t.rows[k][model]]]
        kept == SelectSeq(indexed, LAMBDA e : e.label = result)
    IN  [k \in 1..Len(kept) |-> [index |-> kept[k].index, value |-> kept[k].value]]

\* [df[df[column] == result][model] for result in df[column].unique()]
Groups(t, column, model) ==
    [g \in 1..Len(Unique(Column(t, column))) |->
        Series(t, column, Unique(Column(t, column))[g], model)]

\* mannwhitneyu(*groups): Python binds the first two arguments to the samples x
\* and y and the following ones to use_continuity, alternative, ...; with fewer
\* than two arguments the call is a TypeError
mannwhitneyu(args) ==
    IF Len(args) < 2
    THEN [err |-> "TypeError", samples |-> <<>>, options |-> <<>>]
    ELSE [err |-> "none", samples |-> SubSeq(args, 1, 2),
          options |-> SubSeq(args, 3, Len(args))]

\* Series.value_counts(): the labels with their counts, most frequent first
RECURSIVE ByCount(_)
ByCount(items) ==
    IF items = <<>> THEN <<>>
    ELSE LET top == FirstMax(Tail(items), Head(items))
         IN  <<top>> \o ByCount(SelectSeq(items, LAMBDA e : e # top))

value_counts(values) == ByCount(Counter(values))

-----------------------------------------------------------------------------
(* The inputs: the CSV files and the tables of the RMSE provider.          *)

Missing == [exists |-> FALSE]

\* tables of at most n rows whose k-th row is the k-th pair: one row per pair
KeyedTables(columns, cells, n) ==
    UNION {{[exists |-> TRUE, columns |-> <<"Coin", "Time Frame">> \o columns,
             rows |-> [k \in 1..len |-> KeyCols(AllPairs[k]) @@ cs[k]]]
            : cs \in [1..len -> cells]} : len \in 0..n}

\* tables of at most n rows of any pairs: a pair may repeat or be absent
FreeTables(columns, cells, n) ==
    UNION {{[exists |-> TRUE, columns |-> <<"Coin", "Time Frame">> \o columns,
             rows |-> [k \in 1..len |-> KeyCols(ps[k]) @@ cs[k]]]
            : ps \in [1..len -> Range(AllPairs)], cs \in [1..len -> cells]}
           : len \in 0..n}

\* the files of one test family: per pair, the numbers of "Autocorrelated" and
\* of "Not Autocorrelated" rows
AutoTables(pairs, aCounts, nCounts) ==
    {[exists |-> TRUE,
      count  |-> [g \in {<<p[1], p[2], r>> : p \in pairs,
                                               r \in {Autocorrelated, NotAutocorrelated}}
                  |-> IF g[3] = Autocorrelated
                      THEN a[<<g[1], g[2]>>] ELSE n[<<g[1], g[2]>>]]]
     : a \in [pairs -> aCounts], n \in [pairs -> nCounts]}

TrendCells(tests, votes) == {[c \in Range(tests) |-> v[IndexOf(tests, c)]] : v \in votes}

Column1(c, values) == {(c :> v) : v \in values}

\* a table read_rmse_csv returns for time frame t: indexed by coin, one column
\* per model
RmseTable(t, index) ==
    [ok |-> TRUE, index |-> index,
     rows |-> [j \in 1..Len(index) |->
                 [m \in Range(Models) |-> 100 * t + 10 * j + IndexOf(Models, m)]]]

Indexes(n) == UNION {[1..len -> {BTC, ETH}] : len \in 0..n}

Unreadable == [ok |-> FALSE, index |-> <<>>, rows |-> <<>>]

Providers(n) ==
    {[t \in 1..Len(TimeFrames) |-> RmseTable(t, ix[t])]
     : ix \in [1..Len(TimeFrames) -> Indexes(n)]}

\* every coin in every time frame; ETH absent; the second time frame unreadable
FewProviders ==
    { [t \in 1..Len(TimeFrames) |-> RmseTable(t, <<BTC, ETH>>)],
      [t \in 1..Len(TimeFrames) |-> RmseTable(t, <<BTC>>)],
      [t \in 1..Len(TimeFrames) |->
          IF t = 1 THEN RmseTable(t, <<BTC, ETH>>) ELSE Unreadable] }

Functions ==
    {"auto_correlation", "trend", "seasonality", "uncon_het", "cond_het", "stochasticity"}

MannWhitneyFunctions == {"trend", "uncon_het", "cond_het", "stochasticity"}

FewAutoTables ==
    {Missing} \cup AutoTables({AllPairs[1], AllPairs[3]}, {0, Threshold + 1}, {0, 1})

FewVotes ==
    { <<Increasing, Increasing, NoTrend>>, <<NoTrend, Decreasing, NoTrend>>,
      <<NoTrend, Increasing, Decreasing>> }

FilesOf(f) ==
    CASE f = "auto_correlation" -> [ljung : FewAutoTables, breusch : FewAutoTables]
      [] f = "trend" ->
            [csv : {Missing} \cup KeyedTables(TrendTests, TrendCells(TrendTests, FewVotes), MaxRows)]
      [] f = "seasonality" ->
            [csv : {Missing} \cup
                   KeyedTables(<<"Seasonal Strength">>,
                               Column1("Seasonal Strength", {1, 2}), MaxRows)]
      [] f = "uncon_het" ->
            [csv : {Missing} \cup
                   KeyedTables(<<"Breusch-Pagan", "Goldfeld-Quandt">>,
                       {("Breusch-Pagan" :> a) @@ ("Goldfeld-Quandt" :> b)
                        : a \in {"Heteroskedastic", "Homoskedastic"},
                          b \in {"Heteroskedastic", "Homoskedastic"}}, MaxRows)]
      [] f = "cond_het" ->
            [csv : {Missing} \cup
                   KeyedTables(<<"result">>,
                       Column1("result", {"Heteroskedastic", "Homoskedastic"}), MaxRows)]
      [] f = "stochasticity" ->
            [csv : {Missing} \cup
                   KeyedTables(<<"Hurst", "Result">>,
                       {("Hurst" :> 5) @@ ("Result" :> r)
                        : r \in {"Brownian motion", "Positively correlated",
                                 "Negatively correlated"}}, MaxRows)]

NoCall == [func |-> "none", raised |-> FALSE]

Start ==
    /\ pc = IF fn = "auto_correlation" THEN "ljung" ELSE "read"
    /\ err = "none"
    /\ ljung = None
    /\ breusch = None
    /\ df = None
    /\ labeled = None
    /\ rmse_df = None
    /\ i = 1
    /\ call = NoCall
    /\ results = <<>>
    /\ stdout = <<>>

Init ==
    /\ fn \in Functions
    /\ files \in FilesOf(fn)
    /\ provider \in FewProviders
    /\ Start

-----------------------------------------------------------------------------
(* The steps of the analysis functions.  An exception is never caught:     *)
(* err is set, pc stays at the statement that raised, and no step follows. *)

\* ljung = high_auto_cor("Ljung-Box"), line 63
HighAutoCorLjung ==
    /\ fn = "auto_correlation" /\ pc = "ljung" /\ err = "none"
    /\ \/ /\ ~files.ljung.exists
          /\ err' = "FileNotFoundError"
          /\ UNCHANGED <<pc, ljung>>
       \/ /\ files.ljung.exists
          /\ high_auto_cor(files.ljung).err # "none"
          /\ err' = high_auto_cor(files.ljung).err
          /\ UNCHANGED <<pc, ljung>>
       \/ /\ files.ljung.exists
          /\ high_auto_cor(files.ljung).err = "none"
          /\ ljung' = high_auto_cor(files.ljung).df
          /\ pc' = "breusch"
          /\ UNCHANGED err
    /\ UNCHANGED <<fn, files, provider, breusch, df, labeled, rmse_df, i, call,
                   results, stdout>>

\* breusch = high_auto_cor("Breusch-Godfrey"), line 64
HighAutoCorBreusch ==
    /\ fn = "auto_correlation" /\ pc = "breusch" /\ err = "none"
    /\ \/ /\ ~files.breusch.exists
          /\ err' = "FileNotFoundError"
          /\ UNCHANGED <<pc, breusch>>
       \/ /\ files.breusch.exists
          /\ high_auto_cor(files.breusch).err # "none"
          /\ err' = high_auto_cor(files.breusch).err
          /\ UNCHANGED <<pc, breusch>>
       \/ /\ files.breusch.exists
          /\ high_auto_cor(files.breusch).err = "none"
          /\ breusch' = high_auto_cor(files.breusch).df
          /\ pc' = "overlap"
          /\ UNCHANGED err
    /\ UNCHANGED <<fn, files, provider, ljung, df, labeled, rmse_df, i, call,
                   results, stdout>>

\* lines 67-81
MergeOverlap ==
    /\ fn = "auto_correlation" /\ pc = "overlap" /\ err = "none"
    /\ df' = Overlap(ljung, breusch)
    /\ pc' = "merge"
    /\ UNCHANGED <<fn, err, files, provider, ljung, breusch, labeled, rmse_df, i,
                   call, results, stdout>>

AfterRead(f) ==
    CASE f = "trend" -> "vote"
      [] f = "stochasticity" -> "counts"
      [] OTHER -> "merge"

\* df = pd.read_csv(...), lines 109, 142, 177, 207, 229
ReadCsv ==
    /\ fn # "auto_correlation" /\ pc = "read" /\ err = "none"
    /\ \/ /\ ~files.csv.exists
          /\ err' = "FileNotFoundError"
          /\ UNCHANGED <<pc, df>>
       \/ /\ files.csv.exists
          /\ df' = DataFrame(files.csv.columns, files.csv.rows)
          /\ pc' = AfterRead(fn)
          /\ UNCHANGED err
    /\ UNCHANGED <<fn, files, provider, ljung, breusch, labeled, rmse_df, i, call,
                   results, stdout>>

\* trend, lines 115-118: the vote over each whole row, then the projection
TrendVote ==
    /\ fn = "trend" /\ pc = "vote" /\ err = "none"
    /\ df' = DataFrame(<<"Coin", "Time Frame", "Result">>,
                [k \in 1..Len(df.rows) |->
                    KeyCols(Key(df.rows[k])) @@
                    ("Result" :> find_majority(RowValues(df, k)))])
    /\ pc' = "fold"
    /\ UNCHANGED <<fn, err, files, provider, ljung, breusch, labeled, rmse_df, i,
                   call, results, stdout>>

\* trend, lines 121-122
TrendFold ==
    /\ fn = "trend" /\ pc = "fold" /\ err = "none"
    /\ df' = [df EXCEPT !.rows =
                [k \in 1..Len(df.rows) |->
                    [df.rows[k] EXCEPT !["Result"] = Fold(df.rows[k]["Result"])]]]
    /\ pc' = "merge"
    /\ UNCHANGED <<fn, err, files, provider, ljung, breusch, labeled, rmse_df, i,
                   call, results, stdout>>

\* stochasticity, line 231
PrintValueCounts ==
    /\ fn = "stochasticity" /\ pc = "counts" /\ err = "none"
    /\ stdout' = Append(stdout, [kind |-> "value_counts",
                                 items |-> value_counts(Column(df, "Result"))])
    /\ pc' = "merge"
    /\ UNCHANGED <<fn, err, files, provider, ljung, breusch, df, labeled, rmse_df,
                   i, call, results>>

\* df = merge_rmse(df), lines 36-58
MergeRmse ==
    /\ pc = "merge" /\ err = "none"
    /\ \/ /\ \E t \in 1..Len(TimeFrames) : ~provider[t].ok
          /\ err' = "FileNotFoundError"
          /\ UNCHANGED <<pc, df, labeled, rmse_df>>
       \/ /\ \A t \in 1..Len(TimeFrames) : provider[t].ok
          /\ labeled' = df
          /\ rmse_df' = Concat(provider)
          /\ df' = merge_rmse(df, Concat(provider))
          /\ pc' = "test"
          /\ UNCHANGED err
    /\ UNCHANGED <<fn, files, provider, ljung, breusch, i, call, results, stdout>>

\* anova, lines 90-96: per model the fit, the table, the print.  The fit raises
\* on a table without rows and may raise on any other
Anova ==
    /\ fn = "auto_correlation" /\ pc = "test" /\ err = "none"
    /\ \/ /\ call' = [func |-> "ols", model |-> Models[i], raised |-> TRUE]
          /\ err' = "ValueError"
          /\ UNCHANGED <<pc, i, stdout>>
       \/ /\ Len(df.rows) > 0
          /\ call' = [func |-> "ols", model |-> Models[i], raised |-> FALSE]
          /\ stdout' = Append(stdout, [kind |-> "anova",
                                       items |-> <<[model |-> Models[i]]>>])
          /\ i' = IF i = Len(Models) THEN 1 ELSE i + 1
          /\ pc' = IF i = Len(Models) THEN "done" ELSE pc
          /\ UNCHANGED err
    /\ UNCHANGED <<fn, files, provider, ljung, breusch, df, labeled, rmse_df, results>>

\* seasonality, lines 149-165: per model the regression and its p-value.  The
\* regression raises on a table without rows and may raise on any other
Ols ==
    /\ fn = "seasonality" /\ pc = "test" /\ err = "none"
    /\ \/ /\ call' = [func |-> "OLS", model |-> Models[i], raised |-> TRUE]
          /\ err' = "ValueError"
          /\ UNCHANGED <<pc, i, results>>
       \/ /\ Len(df.rows) > 0
          /\ call' = [func |-> "OLS", model |-> Models[i], raised |-> FALSE]
          /\ results' = Append(results, [column |-> "Seasonal Strength",
                                         model |-> Models[i]])
          /\ i' = IF i = Len(Models) THEN 1 ELSE i + 1
          /\ pc' = IF i = Len(Models) THEN "print" ELSE pc
          /\ UNCHANGED err
    /\ UNCHANGED <<fn, files, provider, ljung, breusch, df, labeled, rmse_df, stdout>>

\* the column whose values key the groups
LabelColumn ==
    CASE fn \in {"trend", "stochasticity"} -> "Result"
      [] fn = "cond_het" -> "result"
      [] fn = "uncon_het" -> IF pc = "test" THEN "Breusch-Pagan" ELSE "Goldfeld-Quandt"

MannWhitneyCall(groups, raised) ==
    [func |-> "mannwhitneyu", model |-> Models[i], column |-> LabelColumn,
     groups |-> groups, samples |-> mannwhitneyu(groups).samples,
     options |-> mannwhitneyu(groups).options, raised |-> raised]

\* the variant of MannWhitney in which the loop body catches what the test raises
MannWhitneyCaught ==
    /\ fn \in MannWhitneyFunctions /\ pc \in {"test", "test2"} /\ err = "none"
    /\ LET groups == Groups(df, LabelColumn, Models[i])
           last == i = Len(Models)
       IN  /\ \/ /\ call' = MannWhitneyCall(groups, TRUE)
                 /\ UNCHANGED results
              \/ /\ mannwhitneyu(groups).err = "none"
                 /\ call' = MannWhitneyCall(groups, FALSE)
                 /\ results' = Append(results, call')
           /\ i' = IF last THEN 1 ELSE i + 1
           /\ pc' = IF ~last THEN pc
                    ELSE IF fn = "uncon_het" /\ pc = "test" THEN "test2" ELSE "print"
           /\ UNCHANGED err
    /\ UNCHANGED <<fn, files, provider, ljung, breusch, df, labeled, rmse_df, stdout>>

\* the variant of MannWhitney in which the results are printed inside the loop
MannWhitneyPrinting ==
    /\ fn \in MannWhitneyFunctions /\ pc \in {"test", "test2"} /\ err = "none"
    /\ LET groups == Groups(df, LabelColumn, Models[i])
           last == i = Len(Models)
       IN  \/ /\ mannwhitneyu(groups).err # "none"
              /\ call' = MannWhitneyCall(groups, TRUE)
              /\ err' = mannwhitneyu(groups).err
              /\ UNCHANGED <<pc, i, results, stdout>>
           \/ /\ mannwhitneyu(groups).err = "none"
              /\ call' = MannWhitneyCall(groups, TRUE)
              /\ err' = "ValueError"
              /\ UNCHANGED <<pc, i, results, stdout>>
           \/ /\ mannwhitneyu(groups).err = "none"
              /\ call' = MannWhitneyCall(groups, FALSE)
              /\ results' = Append(results, call')
              /\ stdout' = Append(stdout, [kind |-> "results", items |-> results'])
              /\ i' = IF last THEN 1 ELSE i + 1
              /\ pc' = IF ~last THEN pc
                       ELSE IF fn = "uncon_het" /\ pc = "test" THEN "test2" ELSE "print"
              /\ UNCHANGED err
    /\ UNCHANGED <<fn, files, provider, ljung, breusch, df, labeled, rmse_df>>

\* lines 130-132, 187-192, 195-200, 215-217, 239-241: per model the groups and
\* the test
MannWhitney ==
    /\ fn \in MannWhitneyFunctions /\ pc \in {"test", "test2"} /\ err = "none"
    /\ LET groups == Groups(df, LabelColumn, Models[i])
           last == i = Len(Models)
       IN  \/ /\ mannwhitneyu(groups).err # "none"
              /\ call' = MannWhitneyCall(groups, TRUE)
              /\ err' = mannwhitneyu(groups).err
              /\ UNCHANGED <<pc, i, results>>
           \/ /\ mannwhitneyu(groups).err = "none"
              /\ call' = MannWhitneyCall(groups, TRUE)
              /\ err' = "ValueError"
              /\ UNCHANGED <<pc, i, results>>
           \/ /\ mannwhitneyu(groups).err = "none"
              /\ call' = MannWhitneyCall(groups, FALSE)
              /\ results' = Append(results, call')
              /\ i' = IF last THEN 1 ELSE i + 1
              /\ pc' = IF ~last THEN pc
                       ELSE IF fn = "uncon_het" /\ pc = "test" THEN "test2" ELSE "print"
              /\ UNCHANGED err
    /\ UNCHANGED <<fn, files, provider, ljung, breusch, df, labeled, rmse_df, stdout>>

ResultsOf(column) == SelectSeq(results, LAMBDA r : r.column = column)

Printed ==
    IF fn = "uncon_het"
    THEN <<[kind |-> "results", items |-> ResultsOf("Breusch-Pagan")],
           [kind |-> "results", items |-> ResultsOf("Goldfeld-Quandt")]>>
    ELSE <<[kind |-> "results", items |-> results]>>

\* print(results), lines 134, 167, 202-203, 219, 243
PrintResults ==
    /\ pc = "print" /\ err = "none"
    /\ stdout' = stdout \o Printed
    /\ pc' = "done"
    /\ UNCHANGED <<fn, err, files, provider, ljung, breusch, df, labeled, rmse_df,
                   i, call, results>>

Next ==
    \/ HighAutoCorLjung
    \/ HighAutoCorBreusch
    \/ MergeOverlap
    \/ ReadCsv
    \/ TrendVote
    \/ TrendFold
    \/ PrintValueCounts
    \/ MergeRmse
    \/ Anova
    \/ Ols
    \/ MannWhitney
    \/ PrintResults

Spec == Init /\ [][Next]_vars

-----------------------------------------------------------------------------
(* The front of auto_correlation over many counts, the vote of trend over  *)
(* every combination of test outcomes, and merge_rmse over tables with     *)
(* repeated and unmatched pairs.                                           *)

ManyAutoTables ==
    {Missing} \cup AutoTables({AllPairs[1], AllPairs[4]},
                              {0} \cup ((Threshold - 1)..(Threshold + MaxExcess)),
                              {0, 1})

InitAutoCor ==
    /\ fn = "auto_correlation"
    /\ files \in [ljung : ManyAutoTables, breusch : ManyAutoTables]
    /\ provider = [t \in 1..Len(TimeFrames) |-> RmseTable(t, <<BTC, ETH>>)]
    /\ Start

NextAutoCor == HighAutoCorLjung \/ HighAutoCorBreusch \/ MergeOverlap

SpecAutoCor == InitAutoCor /\ [][NextAutoCor]_vars

TrendLabels == {Increasing, Decreasing, NoTrend}

\* three test columns over the labels and a label in which "increasing" occurs,
\* or four test columns over the labels
InitTrend ==
    /\ fn = "trend"
    /\ files \in [csv : {Missing} \cup
                        KeyedTables(TrendTests,
                            TrendCells(TrendTests,
                                [1..Len(TrendTests) -> TrendLabels \cup {NonIncreasing}]),
                            MaxVoteRows) \cup
                        KeyedTables(FourTrendTests,
                            TrendCells(FourTrendTests,
                                [1..Len(FourTrendTests) -> TrendLabels]),
                            MaxVoteRows)]
    /\ provider = [t \in 1..Len(TimeFrames) |-> RmseTable(t, <<BTC, ETH>>)]
    /\ Start

NextTrend == ReadCsv \/ TrendVote \/ TrendFold

SpecTrend == InitTrend /\ [][NextTrend]_vars

InitMerge ==
    /\ fn = "cond_het"
    /\ files \in [csv : {Missing} \cup
                        FreeTables(<<"result">>, Column1("result", {"Heteroskedastic"}),
                                   MaxLabRows)]
    /\ provider \in Providers(MaxErrRows) \cup
                    {[t \in 1..Len(TimeFrames) |->
                        IF t = 1 THEN RmseTable(t, <<BTC, ETH>>) ELSE Unreadable]}
    /\ Start

NextMerge == ReadCsv \/ MergeRmse

SpecMerge == InitMerge /\ [][NextMerge]_vars

-----------------------------------------------------------------------------
(* Properties.                                                             *)

\* the labels a family's reduction gives pair p (none when it has no such row)
FamilyLabels(t, p) ==
    {t.rows[k]["Predominantly"] : k \in {j \in 1..Len(t.rows) : Key(t.rows[j]) = p}}

RowsOfKey(t, p) == Cardinality({k \in 1..Len(t.rows) : Key(t.rows[k]) = p})

RowsOfTimeFrame(t, tf) ==
    Cardinality({k \in 1..Len(t.rows) : t.rows[k]["Time Frame"] = tf})

Min(a, b) == IF a <= b THEN a ELSE b

FirstPosition(values, v) ==
    CHOOSE k \in DOMAIN values :
        values[k] = v /\ \A j \in DOMAIN values : values[j] = v => k <= j

Overlapped == fn = "auto_correlation" /\ pc = "merge" /\ err = "none"

\* C1: in auto_correlation the combined Result of a pair is "Autocorrelated"
\* exactly when the Ljung-Box and the Breusch-Godfrey reductions both label the
\* pair "Autocorrelated"; if either labels it "Not Autocorrelated" the combined
\* Result is "Not Autocorrelated".
AgreementConjunction ==
    Overlapped =>
        \A k \in 1..Len(df.rows) :
            LET p == Key(df.rows[k])
                r == df.rows[k]["Result"]
            IN  /\ r \in {Autocorrelated, NotAutocorrelated}
                /\ r = Autocorrelated <=>
                      /\ FamilyLabels(ljung, p) = {Autocorrelated}
                      /\ FamilyLabels(breusch, p) = {Autocorrelated}
                /\ NotAutocorrelated \in FamilyLabels(ljung, p) \cup FamilyLabels(breusch, p)
                      => r = NotAutocorrelated

\* a run in which one pair is "Autocorrelated" in both families and combined so,
\* and another is "Autocorrelated" in Ljung-Box only and combined as not
AgreementConjunctionWitness ==
    /\ Overlapped
    /\ \E k \in 1..Len(df.rows) : df.rows[k]["Result"] = Autocorrelated
    /\ \E k \in 1..Len(df.rows) :
          /\ df.rows[k]["Result"] = NotAutocorrelated
          /\ FamilyLabels(ljung, Key(df.rows[k])) = {Autocorrelated}
          /\ FamilyLabels(breusch, Key(df.rows[k])) = {NotAutocorrelated}

\* the table high_auto_cor returned for a file is the one the cutoff asks for
ThresholdTable(file, t) ==
    \A p \in Range(AllPairs) :
        LET a == file.count[<<p[1], p[2], Autocorrelated>>]
            n == file.count[<<p[1], p[2], NotAutocorrelated>>]
        IN  IF <<p[1], p[2], Autocorrelated>> \in DOMAIN file.count /\ a + n > 0
            THEN FamilyLabels(t, p) =
                    {IF a > 49 THEN Autocorrelated ELSE NotAutocorrelated}
                 /\ RowsOfKey(t, p) = 1
            ELSE RowsOfKey(t, p) = 0

\* C2: high_auto_cor returns, for every pair of the input, exactly one row,
\* labelled "Autocorrelated" iff more than 49 rows of the pair have Result
\* "Autocorrelated", for every count from 0 upwards, also when no row of the
\* input has Result "Autocorrelated".
ThresholdForEveryCount ==
    fn = "auto_correlation" =>
        /\ pc = "ljung" /\ files.ljung.exists /\ Grouped(files.ljung) # {}
              => err = "none"
        /\ pc = "breusch" /\ files.breusch.exists /\ Grouped(files.breusch) # {}
              => err = "none"
        /\ pc \notin {"ljung"} => ThresholdTable(files.ljung, ljung)
        /\ pc \notin {"ljung", "breusch"} => ThresholdTable(files.breusch, breusch)

\* what does hold of high_auto_cor: whenever it returns, the table is the one
\* the cutoff asks for
ThresholdWhenReturned ==
    fn = "auto_correlation" =>
        /\ pc \notin {"ljung"} => ThresholdTable(files.ljung, ljung)
        /\ pc \notin {"ljung", "breusch"} => ThresholdTable(files.breusch, breusch)

Voted == fn = "trend" /\ pc = "fold" /\ err = "none"

\* C3: find_majority returns the value of the row with the highest frequency,
\* and of several values with the highest frequency the one met first in the
\* row.
MajorityFirstMet ==
    Voted =>
        \A k \in 1..Len(df.rows) :
            LET values == RowValues(files.csv, k)
                r == df.rows[k]["Result"]
            IN  /\ r \in Range(values)
                /\ \A v \in Range(values) :
                      /\ Occurrences(values, v) <= Occurrences(values, r)
                      /\ v # r /\ Occurrences(values, v) = Occurrences(values, r)
                            => FirstPosition(values, r) < FirstPosition(values, v)

\* a row in which two test outcomes occur twice each, more often than any other
\* value, and the vote over it gives the one met first
MajorityFirstMetWitness ==
    /\ Voted
    /\ \E k \in 1..Len(df.rows) :
          LET values == RowValues(files.csv, k)
          IN  \E v \in Range(values) :
                 /\ v # df.rows[k]["Result"]
                 /\ Occurrences(values, v) = 2
                 /\ Occurrences(values, df.rows[k]["Result"]) = 2

Joined == pc = "test" /\ err = "none"

KeysUnique(t) == \A p \in Keys(t) : RowsOfKey(t, p) = 1

PairsInBoth ==
    \A k \in 1..Len(df.rows) :
        Key(df.rows[k]) \in Keys(labeled) \cap Keys(rmse_df)

\* C4 as stated: every joined row's pair is in the labeled and in the error
\* table, and per time frame the joined rows never exceed
\* min(labeled rows, error rows).
JoinNeverExceedsMin ==
    Joined =>
        /\ PairsInBoth
        /\ \A t \in 1..Len(TimeFrames) :
              RowsOfTimeFrame(df, TimeFrames[t]) <=
                  Min(RowsOfTimeFrame(labeled, TimeFrames[t]),
                      RowsOfTimeFrame(rmse_df, TimeFrames[t]))

\* C4, amended: every joined row's pair is in the labeled and in the error
\* table; a pair has as many joined rows as the product of its rows in the two
\* tables; and when no pair repeats in either table, the joined rows of a time
\* frame never exceed min(labeled rows, error rows) of that time frame.
InnerJoin ==
    Joined =>
        /\ PairsInBoth
        /\ \A p \in Range(AllPairs) :
              RowsOfKey(df, p) = RowsOfKey(labeled, p) * RowsOfKey(rmse_df, p)
        /\ KeysUnique(labeled) /\ KeysUnique(rmse_df) =>
              \A t \in 1..Len(TimeFrames) :
                  RowsOfTimeFrame(df, TimeFrames[t]) <=
                      Min(RowsOfTimeFrame(labeled, TimeFrames[t]),
                          RowsOfTimeFrame(rmse_df, TimeFrames[t]))

\* a join of tables without repeated pairs that keeps a row and drops a labeled
\* row and an error row that have no match
InnerJoinWitness ==
    /\ Joined
    /\ KeysUnique(labeled) /\ KeysUnique(rmse_df)
    /\ Len(df.rows) > 0
    /\ Keys(labeled) \ Keys(rmse_df) # {}
    /\ Keys(rmse_df) \ Keys(labeled) # {}

\* C5: the folding of trend is idempotent on every label, and a label other
\* than "increasing" and "decreasing" is left unchanged.
FoldingIdempotentAndNarrow ==
    Voted =>
        \A k \in 1..Len(df.rows) :
            LET v == df.rows[k]["Result"]
            IN  /\ Fold(Fold(v)) = Fold(v)
                /\ v \notin {Increasing, Decreasing} => Fold(v) = v

\* what does hold of the folding: it is idempotent, and a label in which neither
\* word occurs is left unchanged
FoldingIdempotent ==
    Voted =>
        \A k \in 1..Len(df.rows) :
            LET v == df.rows[k]["Result"]
            IN  /\ Fold(Fold(v)) = Fold(v)
                /\ v \in {NoTrend, Trend, BTC, ETH, D1, H4} => Fold(v) = v

\* every row of the joined table is in exactly one of the groups
Partitioned(groups) ==
    \A k \in 1..Len(df.rows) :
        Cardinality({ge \in (1..Len(groups)) \X (1..Len(df.rows)) :
                        /\ ge[2] <= Len(groups[ge[1]])
                        /\ groups[ge[1]][ge[2]].index = k}) = 1

\* C6: in trend, uncon_het, cond_het and stochasticity the joined rows are
\* partitioned into one group per distinct label (two or more), one
\* Mann-Whitney test is applied per model, and every group is a sample of that
\* test.
EveryGroupCompared ==
    /\ call.func = "mannwhitneyu" /\ Len(call.groups) >= 2 =>
          /\ Partitioned(call.groups)
          /\ Len(call.groups) = Cardinality(Range(Column(df, call.column)))
          /\ \A g \in 1..Len(call.groups) : call.groups[g] \in Range(call.samples)
    /\ fn \in MannWhitneyFunctions =>
          \A a, b \in 1..Len(results) :
              results[a].model = results[b].model /\ results[a].column = results[b].column
                  => a = b

\* what does hold of the groups: they partition the joined rows, one per label
GroupsPartition ==
    call.func = "mannwhitneyu" =>
        /\ Partitioned(call.groups)
        /\ Len(call.groups) = Cardinality(Range(Column(df, call.column)))

JoinDone == labeled # None

Compared == pc \in {"print", "done"}

TestResults == {k \in 1..Len(stdout) : stdout[k].kind \in {"results", "anova"}}

\* C7 as stated: in every analysis function nothing is printed before the join
\* and the group comparison of the function have happened, and no comparison
\* runs before the join.
NothingPrintedBeforeComparison ==
    /\ stdout # <<>> => JoinDone /\ Compared
    /\ call.func # "none" => JoinDone

\* C7, amended: in every analysis function the join follows the load and the
\* label reduction, and no comparison runs before the join.  trend, seasonality,
\* uncon_het and cond_het print nothing before all their comparisons have
\* happened.  stochasticity prints the label counts after the load, before the
\* join, and its test results after all comparisons.  auto_correlation prints
\* each model's ANOVA table right after that model's fit and before the next
\* model's fit.
StagesInOrder ==
    /\ call.func # "none" => JoinDone
    /\ pc \in {"test", "test2", "print", "done"} => JoinDone
    /\ JoinDone =>
          /\ pc \in {"test", "test2", "print", "done"}
          /\ labeled.columns # <<>>
          /\ fn = "auto_correlation" => labeled = Overlap(ljung, breusch)
          /\ fn = "trend" => "Result" \in Range(labeled.columns)
    /\ fn \in {"trend", "seasonality", "uncon_het", "cond_het"} =>
          (stdout # <<>> => JoinDone /\ pc = "done")
    /\ fn = "stochasticity" =>
          /\ stdout # <<>> => stdout[1].kind = "value_counts" /\ TestResults \subseteq {2}
          /\ TestResults # {} => JoinDone /\ pc = "done"
          /\ pc \notin {"read", "counts"} => stdout # <<>>
    /\ fn = "auto_correlation" =>
          /\ TestResults = 1..Len(stdout)
          /\ stdout # <<>> => JoinDone /\ call.func = "ols"
          /\ \A k \in 1..Len(stdout) : stdout[k].items = <<[model |-> Models[k]]>>
          /\ pc = "test" => Len(stdout) = i - 1
          /\ pc = "done" => Len(stdout) = Len(Models)

\* stochasticity after its label counts are printed and before the join, and
\* auto_correlation between the fits of two models
StagesInOrderWitness ==
    \/ fn = "stochasticity" /\ pc = "merge" /\ stdout # <<>> /\ ~JoinDone
    \/ fn = "auto_correlation" /\ pc = "test" /\ i = 2 /\ Len(stdout) = 1

\* C8 as stated: if the load, the join or the test of any model fails, the
\* error propagates, the run ends, and no test result of any model has been
\* printed.
NoResultPrintedOnFailure ==
    /\ call.raised => err # "none"
    /\ err # "none" => TestResults = {}

\* C8, amended: if the load, the join or the test of any model fails, the error
\* propagates uncaught and the run ends.  In trend, seasonality, uncon_het and
\* cond_het nothing has been printed then; in stochasticity only the label
\* counts; in auto_correlation the ANOVA tables of the models before the failing
\* one, and no other.
FailureEndsRun ==
    /\ call.raised => err # "none"
    /\ err = "none" /\ pc \notin {"read", "ljung"} /\ fn # "auto_correlation"
          => files.csv.exists
    /\ err = "none" /\ fn = "auto_correlation" =>
          /\ pc # "ljung" => files.ljung.exists
          /\ pc \notin {"ljung", "breusch"} => files.breusch.exists
    /\ err = "none" /\ pc \in {"test", "test2", "print", "done"} =>
          \A t \in 1..Len(TimeFrames) : provider[t].ok
    /\ err # "none" =>
          /\ ~ENABLED Next
          /\ pc # "done"
          /\ fn \in {"trend", "seasonality", "uncon_het", "cond_het"} => stdout = <<>>
          /\ fn = "stochasticity" => TestResults = {}
          /\ fn = "auto_correlation" =>
                stdout = [k \in 1..(i - 1) |->
                             [kind |-> "anova", items |-> <<[model |-> Models[k]]>>]]

\* the fit of the second model of auto_correlation fails after the table of the
\* first was printed
FailureEndsRunWitness ==
    /\ fn = "auto_correlation" /\ err # "none" /\ call.raised
    /\ call.model = Models[2]
    /\ Len(stdout) = 1

\* C9: in trend the Result of a row is one of the row's test outcomes (with
\* "increasing" and "decreasing" folded to "trend"), never the row's Coin or
\* Time Frame, also when all test outcomes of the row differ.
ResultIsATestOutcome ==
    fn = "trend" /\ pc = "merge" =>
        \A k \in 1..Len(df.rows) :
            df.rows[k]["Result"] \in
                {Fold(files.csv.rows[k][c])
                 : c \in Range(files.csv.columns) \ {"Coin", "Time Frame"}}

\* C10: the merge of the two families keeps every pair that is in at least one
\* of them, once, and labels a pair that is in only one "Not Autocorrelated".
OuterMergeKeepsPairs ==
    Overlapped =>
        /\ Keys(df) = Keys(ljung) \cup Keys(breusch)
        /\ KeysUnique(df)
        /\ \A k \in 1..Len(df.rows) :
              Key(df.rows[k]) \notin Keys(ljung) \cap Keys(breusch)
                  => df.rows[k]["Result"] = NotAutocorrelated

\* a pair that only the Ljung-Box family has, "Autocorrelated" there, is kept
OuterMergeKeepsPairsWitness ==
    /\ Overlapped
    /\ \E k \in 1..Len(df.rows) :
          /\ Key(df.rows[k]) \in Keys(ljung) \ Keys(breusch)
          /\ FamilyLabels(ljung, Key(df.rows[k])) = {Autocorrelated}
          /\ df.rows[k]["Result"] = NotAutocorrelated

====
